---- MODULE Spec2Model ----
(***************************************************************************)
(* Healix: the conversational symptom-intake handler of chatbot.py with    *)
(* the helpers of src/helper.py and the extractor of nlp.py.               *)
(*                                                                         *)
(* Text is a sequence of one-character strings.  Python's None is the      *)
(* empty tuple and a present value x is the one-element tuple <<x>>.       *)
(* Probabilities are integers in units of 1/10000.                         *)
(***************************************************************************)
EXTENDS Integers, Sequences, FiniteSets, TLC

\* ------------------------------ bounds ---------------------------------
\* Messages handled by one process.
MaxMsgs == 5
\* Reports the reports store holds before the model stops taking messages.
MaxReports == 2
\* Longest symptom list handed to the vectorizer on its own.
MaxSymptoms == 3
\* Pieces a text handed to the fallback extractor on its own is made of.
MaxPieces == 3

\* ------------------------------ None / Some ----------------------------
None == <<>>
Some(x) == <<x>>
IsNone(o) == o = <<>>
Val(o) == o[1]

\* ------------------------------ text -----------------------------------
UpperLetters == <<"A", "B", "C", "D", "E", "F", "G", "H", "I", "J", "K", "L", "M", "N", "O", "P", "Q", "R", "S", "T", "U", "V", "W", "X", "Y", "Z">>
LowerLetters == <<"a", "b", "c", "d", "e", "f", "g", "h", "i", "j", "k", "l", "m", "n", "o", "p", "q", "r", "s", "t", "u", "v", "w", "x", "y", "z">>
Digits == {"0", "1", "2", "3", "4", "5", "6", "7", "8", "9"}

\* The whitespace str.strip() and the regex class \s remove.
IsSpace(c) == c \in {" ", "\t", "\n", "\r"}

\* str.lower() on one character.
LowerChar(c) ==
    IF \E i \in 1..Len(UpperLetters) : UpperLetters[i] = c
    THEN LowerLetters[CHOOSE i \in 1..Len(UpperLetters) : UpperLetters[i] = c]
    ELSE c

lower(s) == [i \in 1..Len(s) |-> LowerChar(s[i])]

RECURSIVE lstrip(_)
lstrip(s) == IF s = <<>> THEN <<>>
             ELSE IF IsSpace(Head(s)) THEN lstrip(Tail(s)) ELSE s

RECURSIVE rstrip(_)
rstrip(s) == IF s = <<>> THEN <<>>
             ELSE IF IsSpace(s[Len(s)]) THEN rstrip(SubSeq(s, 1, Len(s) - 1)) ELSE s

\* str.strip()
strip(s) == rstrip(lstrip(s))

\* Python's `needle in haystack` on strings.
Contains(haystack, needle) ==
    \E i \in 1..(Len(haystack) - Len(needle) + 1) :
        SubSeq(haystack, i, i + Len(needle) - 1) = needle

\* sep.join(parts)
RECURSIVE join(_, _)
join(sep, parts) ==
    IF parts = <<>> THEN <<>>
    ELSE IF Len(parts) = 1 THEN parts[1]
    ELSE parts[1] \o sep \o join(sep, Tail(parts))

\* re.split(r"[,.]", s): the pieces between separators, empty pieces kept.
RECURSIVE re_split(_, _)
re_split(s, cur) ==
    IF s = <<>> THEN <<cur>>
    ELSE IF Head(s) \in {",", "."} THEN <<cur>> \o re_split(Tail(s), <<>>)
    ELSE re_split(Tail(s), Append(cur, Head(s)))

\* A Python truth test on a string or a list.
Truthy(s) == s # <<>>

\* ------------------------------ dicts ----------------------------------
\* A dict is a function on the set of its keys.
EmptyDict == <<>>
DictGet(d, k, default) == IF k \in DOMAIN d THEN d[k] ELSE default
DictPut(d, k, v) == [x \in (DOMAIN d) \cup {k} |-> IF x = k THEN v ELSE d[x]]

\* An insertion-ordered dict keyed by strings: a sequence of <<key, value>>.
\* Assigning to a key already present replaces its value in place.
HasKey(od, k) == \E i \in 1..Len(od) : od[i][1] = k
Lookup(od, k) == od[CHOOSE i \in 1..Len(od) : od[i][1] = k][2]
OrderedPut(od, k, v) ==
    IF HasKey(od, k)
    THEN [i \in 1..Len(od) |-> IF od[i][1] = k THEN <<k, v>> ELSE od[i]]
    ELSE Append(od, <<k, v>>)

\* ------------------------------ src/helper.py --------------------------
\* sorted(COMMON_SYMPTOMS)
SortedCommonSymptoms ==
    <<
       <<"c", "h", "e", "s", "t", " ", "p", "a", "i", "n">>,
       <<"c", "h", "i", "l", "l", "s">>,
       <<"c", "o", "u", "g", "h">>,
       <<"d", "i", "a", "r", "r", "h", "e", "a">>,
       <<"d", "i", "z", "z", "i", "n", "e", "s", "s">>,
       <<"f", "a", "t", "i", "g", "u", "e">>,
       <<"f", "e", "v", "e", "r">>,
       <<"h", "e", "a", "d", "a", "c", "h", "e">>,
       <<"j", "o", "i", "n", "t", " ", "p", "a", "i", "n">>,
       <<"m", "u", "s", "c", "l", "e", " ", "p", "a", "i", "n">>,
       <<"n", "a", "u", "s", "e", "a">>,
       <<"r", "a", "s", "h">>,
       <<"r", "u", "n", "n", "y", " ", "n", "o", "s", "e">>,
       <<"s", "h", "o", "r", "t", "n", "e", "s", "s", " ", "o", "f", " ", "b", "r", "e", "a", "t", "h">>,
       <<"s", "o", "r", "e", " ", "t", "h", "r", "o", "a", "t">>,
       <<"v", "o", "m", "i", "t", "i", "n", "g">>
    >>

COMMON_SYMPTOMS == {SortedCommonSymptoms[i] : i \in 1..Len(SortedCommonSymptoms)}

\* The fragments left untrimmed.
StripAllOmitted(parts) == parts

StripAll(parts) == [i \in 1..Len(parts) |-> strip(parts[i])]

FirstN(s, n) == SubSeq(s, 1, IF Len(s) < n THEN Len(s) ELSE n)

parse_symptoms_from_text(user_text) ==
    LET text == <<" ">> \o lower(user_text) \o <<" ">>
        found == SelectSeq(SortedCommonSymptoms, LAMBDA symptom : Contains(text, symptom))
        chunks == SelectSeq(StripAll(re_split(user_text, <<>>)), Truthy)
    IN  IF found # <<>> THEN found ELSE FirstN(chunks, 3)

\* ------------------------------ nlp.py ---------------------------------
\* symptoms_list: its first four labels, in the list's order.
symptoms_list ==
    <<
       <<"a", "n", "x", "i", "e", "t", "y", " ", "a", "n", "d", " ", "n", "e", "r", "v", "o", "u", "s", "n", "e", "s", "s">>,
       <<"d", "e", "p", "r", "e", "s", "s", "i", "o", "n">>,
       <<"s", "h", "o", "r", "t", "n", "e", "s", "s", " ", "o", "f", " ", "b", "r", "e", "a", "t", "h">>,
       <<"d", "e", "p", "r", "e", "s", "s", "i", "v", "e", " ", "o", "r", " ", "p", "s", "y", "c", "h", "o", "t", "i", "c", " ", "s", "y", "m", "p", "t", "o", "m", "s">>
    >>

\* clean_text: lowercase, every character outside [a-z0-9\s] becomes a space,
\* runs of whitespace collapse to one space, the ends are stripped.
CleanChar(c) ==
    IF IsSpace(c) \/ c \in Digits
       \/ (\E i \in 1..Len(LowerLetters) : LowerLetters[i] = c)
    THEN c ELSE " "

RECURSIVE collapse_spaces(_)
collapse_spaces(s) ==
    IF s = <<>> THEN <<>>
    ELSE IF IsSpace(Head(s))
         THEN <<" ">> \o collapse_spaces(lstrip(s))
         ELSE <<Head(s)>> \o collapse_spaces(Tail(s))

clean_text(text) ==
    LET lowered == lower(text)
        replaced == [i \in 1..Len(lowered) |-> CleanChar(lowered[i])]
    IN  strip(collapse_spaces(replaced))

\* A spaCy token as the extractor reads it.
Tok(text, lemma, is_stop) ==
    [text |-> text, lemma_ |-> lemma, is_stop |-> is_stop,
     is_punct |-> FALSE, is_space |-> FALSE]

\* nlp(clean_text(s)) for the i-th label of symptoms_list: the documents
\* spaCy's en_core_web_sm returns (lemmas already lowercase and stripped).
LabelDoc(i) ==
    CASE i = 1 -> <<Tok("anxiety", "anxiety", FALSE), Tok("and", "and", TRUE),
                    Tok("nervousness", "nervousness", FALSE)>>
      [] i = 2 -> <<Tok("depression", "depression", FALSE)>>
      [] i = 3 -> <<Tok("shortness", "shortness", FALSE), Tok("of", "of", TRUE),
                    Tok("breath", "breath", FALSE)>>
      [] i = 4 -> <<Tok("depressive", "depressive", FALSE), Tok("or", "or", TRUE),
                    Tok("psychotic", "psychotic", FALSE),
                    Tok("symptoms", "symptom", FALSE)>>

token_lemma_set(doc) ==
    {doc[i].lemma_ : i \in {j \in 1..Len(doc) :
        /\ ~(doc[j].is_stop \/ doc[j].is_punct \/ doc[j].is_space)
        /\ doc[j].lemma_ # ""}}

\* symptom_meta[s]["lemmas"], by index into symptoms_list.
symptom_meta_lemmas(i) == token_lemma_set(LabelDoc(i))

\* token_lemma_set(nlp(clean_text(sentence))): the lemma sets the model gives
\* a sentence, and none when clean_text leaves nothing of the sentence.
SentenceLemmas ==
    { {},
      {"anxiety"},
      {"depression"},
      {"anxiety", "nervousness", "depression"} }
SentenceLemmaSets(sentence) ==
    IF clean_text(sentence) = <<>> THEN {{}} ELSE SentenceLemmas

\* threshold=0.55, as a percentage.
ThresholdPct == 55

\* symptom_meta: the lemma set of each label, in the order of symptoms_list.
symptom_meta == [i \in 1..Len(symptoms_list) |-> symptom_meta_lemmas(i)]

\* nlp.py:163-166 for one label: ratio = len(overlap) / len(meta["lemmas"]),
\* then ratio >= threshold or len(overlap) >= 2.  The division has no guard:
\* with an empty meta["lemmas"] it raises ZeroDivisionError.
LabelGate(sentence_lemmas, label_lemmas) ==
    LET overlap == sentence_lemmas \cap label_lemmas
    IN  IF Cardinality(label_lemmas) = 0
        THEN [raised |-> TRUE, matches |-> FALSE]
        ELSE [raised |-> FALSE,
              matches |-> \/ 100 * Cardinality(overlap) >= ThresholdPct * Cardinality(label_lemmas)
                          \/ Cardinality(overlap) >= 2]

\* The per-label gate for the i-th label of symptoms_list.
LabelMatches(sentence_lemmas, i) ==
    LabelGate(sentence_lemmas, symptom_meta_lemmas(i)).matches

\* The loop of nlp.py:162-167 over a table of label lemma sets: the indices of
\* the labels found, unless the gate of a label raises, which ends the call.
ExtractOver(sentence_lemmas, meta) ==
    IF \E i \in 1..Len(meta) : LabelGate(sentence_lemmas, meta[i]).raised
    THEN [raised |-> TRUE, found |-> {}]
    ELSE [raised |-> FALSE,
          found |-> {i \in 1..Len(meta) : LabelGate(sentence_lemmas, meta[i]).matches}]

\* set(found): the labels of the vocabulary that pass the gate.
FoundLabels(sentence_lemmas) ==
    {symptoms_list[i] : i \in {j \in 1..Len(symptoms_list) : LabelMatches(sentence_lemmas, j)}}

\* Every order a list of the members of a set can have.
Orderings(S) ==
    {s \in [1..Cardinality(S) -> S] : \A i, j \in 1..Cardinality(S) : s[i] = s[j] => i = j}

\* extract_symptoms_from_text: list(set(found)), in whatever order the set yields.
extract_symptoms_from_text(sentence_lemmas) == Orderings(FoundLabels(sentence_lemmas))

\* ------------------------------ chatbot.py: CNN adapter ----------------
\* The index counted from 1 instead of 0.
IndexOfOneBased(vocab, s) ==
    IF \E i \in 1..Len(vocab) : vocab[i] = s
    THEN Some(CHOOSE i \in 1..Len(vocab) :
                  /\ vocab[i] = s
                  /\ \A j \in 1..Len(vocab) : vocab[j] = s => j <= i)
    ELSE None

\* index_map.get(s): the index of s in vocab, 0-based, or None.
IndexOf(vocab, s) ==
    IF \E i \in 1..Len(vocab) : vocab[i] = s
    THEN Some((CHOOSE i \in 1..Len(vocab) :
                  /\ vocab[i] = s
                  /\ \A j \in 1..Len(vocab) : vocab[j] = s => j <= i) - 1)
    ELSE None

\* The vectorizer reading nlp.symptoms_list itself when ADV_SYMPTOM_VOCAB is None.
_vectorize_with_default_vocab(extracted_symptoms, adv_vocab) ==
    IF ~Truthy(extracted_symptoms) THEN None
    ELSE LET vocab == IF IsNone(adv_vocab) THEN symptoms_list ELSE Val(adv_vocab)
             hit(i) == \E k \in 1..Len(extracted_symptoms) :
                          IndexOf(vocab, extracted_symptoms[k]) = Some(i - 1)
         IN  Some([i \in 1..Len(vocab) |-> IF hit(i) THEN 1 ELSE 0])

\* _vectorize_symptoms_for_cnn(extracted_symptoms) with ADV_SYMPTOM_VOCAB = adv_vocab.
\* The tensor of shape (1, n, 1) is kept as its n entries.
_vectorize_symptoms_for_cnn(extracted_symptoms, adv_vocab) ==
    IF ~Truthy(extracted_symptoms) \/ IsNone(adv_vocab) THEN None
    ELSE LET vocab == Val(adv_vocab)
             hit(i) == \E k \in 1..Len(extracted_symptoms) :
                          IndexOf(vocab, extracted_symptoms[k]) = Some(i - 1)
         IN  Some([i \in 1..Len(vocab) |-> IF hit(i) THEN 1 ELSE 0])

\* np.argmax: the first index (0-based) holding the maximum.
argmax(probs) ==
    (CHOOSE i \in 1..Len(probs) :
        /\ \A j \in 1..Len(probs) : probs[j] <= probs[i]
        /\ \A j \in 1..(i - 1) : probs[j] < probs[i]) - 1

\* mapping_df.loc[mapping_df["Encoded"] == class_index]["Disease"].iloc[0], or
\* None when the table cannot be read or holds no such row.
LookupDisease(mapping, class_index) ==
    IF IsNone(mapping) THEN None
    ELSE IF class_index \in DOMAIN Val(mapping) THEN Some(Val(mapping)[class_index])
    ELSE None

\* _run_cnn_prediction: the result (None or the result dict), whether
\* cnn_model.predict was invoked, and whether an exception leaves the function
\* (the except clause of chatbot.py:210-212 returns None instead).
_run_cnn_prediction(extracted_symptoms, model, adv_vocab, mapping) ==
    IF IsNone(model) \/ ~Truthy(extracted_symptoms)
    THEN [result |-> None, predict_called |-> FALSE, raised |-> FALSE]
    ELSE LET cnn_input == _vectorize_symptoms_for_cnn(extracted_symptoms, adv_vocab)
         IN  IF IsNone(cnn_input)
             THEN [result |-> None, predict_called |-> FALSE, raised |-> FALSE]
             ELSE IF Val(model).kind = "raises"
             THEN [result |-> None, predict_called |-> TRUE, raised |-> FALSE]
             ELSE LET probs == Val(model).probs
                      class_index == argmax(probs)
                      confidence == probs[class_index + 1]
                      disease_label == LookupDisease(mapping, class_index)
                  IN  [result |-> Some([class_index |-> class_index,
                                        confidence |-> confidence,
                                        disease |-> disease_label]),
                       predict_called |-> TRUE, raised |-> FALSE]

\* ------------------------------ chatbot.py: reconciliation -------------
\* Round n/d to the nearest integer, ties to the even one (Python's round()
\* and format() on a value the float holds exactly).
RoundHalfEven(n, d) ==
    LET q == n \div d
        r == n % d
    IN  IF 2 * r < d THEN q
        ELSE IF 2 * r > d THEN q + 1
        ELSE IF q % 2 = 0 THEN q ELSE q + 1

\* Truncation to one decimal instead of rounding.
RoundPct1Truncating(confidence) == confidence \div 10

\* round(confidence * 100.0, 1), in tenths of a percent.
RoundPct1(confidence) == RoundHalfEven(confidence, 10)

\* The classical entry's 100.0, in tenths of a percent.
FullConfidence == 1000

\* f"{confidence:.2f}"
Format2f(confidence) ==
    LET h == RoundHalfEven(confidence, 100)
    IN  ToString(h \div 100) \o "." \o ToString((h % 100) \div 10) \o ToString(h % 10)

\* str(ml_pred) of an array holding several labels.
RECURSIVE ArrayItems(_)
ArrayItems(a) ==
    IF a = <<>> THEN ""
    ELSE IF Len(a) = 1 THEN "'" \o a[1] \o "'"
    ELSE "'" \o a[1] \o "' " \o ArrayItems(Tail(a))

ArrayStr(a) == "[" \o ArrayItems(a) \o "]"

\* The call of predict without the try block: its exception leaves the handler.
ClassicalPredictUncaught(model) ==
    IF IsNone(model) \/ Val(model).kind = "raises"
    THEN [value |-> None, predict_called |-> ~IsNone(model), raised |-> TRUE]
    ELSE LET ml_pred == Val(model).labels
         IN  [value |-> Some(IF Len(ml_pred) = 1 THEN ml_pred[1] ELSE ArrayStr(ml_pred)),
              predict_called |-> TRUE, raised |-> FALSE]

\* The try block around ml_model.predict (chatbot.py:253-263): str(ml_pred_value)
\* when a value came back, None when predict raised (an absent model raises on
\* the attribute access).  `raised` tells whether an exception leaves the block.
ClassicalPredict(model) ==
    IF IsNone(model)
    THEN [value |-> None, predict_called |-> FALSE, raised |-> FALSE]
    ELSE IF Val(model).kind = "raises"
    THEN [value |-> None, predict_called |-> TRUE, raised |-> FALSE]
    ELSE LET ml_pred == Val(model).labels
         IN  [value |-> Some(IF Len(ml_pred) = 1 THEN ml_pred[1] ELSE ArrayStr(ml_pred)),
              predict_called |-> TRUE, raised |-> FALSE]

\* f"Class {cnn_result['class_index']} (CNN)"
Placeholder(class_index) == "Class " \o ToString(class_index) \o " (CNN)"

\* cnn_result and cnn_result.get("disease")
CnnNamed(cnn_result) ==
    /\ ~IsNone(cnn_result)
    /\ ~IsNone(Val(cnn_result).disease)
    /\ Val(Val(cnn_result).disease) # ""

\* cnn_result.get("disease", placeholder)
CnnLabel(cnn_result) ==
    IF IsNone(Val(cnn_result).disease)
    THEN Placeholder(Val(cnn_result).class_index)
    ELSE Val(Val(cnn_result).disease)

\* predictions_block
BuildPredictionsBlock(ml_pred_value, cnn_result) ==
    LET with_ml == IF ~IsNone(ml_pred_value)
                   THEN OrderedPut(<<>>, Val(ml_pred_value), FullConfidence)
                   ELSE <<>>
    IN  IF ~IsNone(cnn_result)
        THEN OrderedPut(with_ml, CnnLabel(cnn_result), RoundPct1(Val(cnn_result).confidence))
        ELSE with_ml

Unknown == <<"U", "n", "k", "n", "o", "w", "n">>
NotAvailable == <<"N", "/", "A">>
Anonymous == <<"a", "n", "o", "n", "y", "m", "o", "u", "s">>

\* report (the fixed doctor list and the note are left out)
BuildReport(report_id, info, symptoms, predictions_block) ==
    [report_id |-> report_id,
     patient |-> [name |-> DictGet(info, "name", Unknown),
                  age |-> DictGet(info, "age", NotAvailable),
                  gender |-> DictGet(info, "gender", NotAvailable)],
     symptoms |-> symptoms,
     predictions |-> predictions_block]

MlSuggests(v) == "Based on your symptoms, the ML model suggests: " \o v \o "."
MlNoPrediction ==
    "I recorded your symptoms, but the classical ML model could not produce a reliable prediction for this description."
CnnSuggests(r) ==
    "The CNN model also suggests: " \o Val(r.disease) \o " (confidence " \o Format2f(r.confidence) \o ")."
CnnTopIndex(r) ==
    "The CNN model's top prediction index is " \o ToString(r.class_index)
        \o " (confidence " \o Format2f(r.confidence) \o ")."

\* A reply that also reports the CNN model as unavailable.
ReplyPartsCnnNote(ml_pred_value, cnn_result) ==
    LET first == IF ~IsNone(ml_pred_value) THEN <<MlSuggests(Val(ml_pred_value))>>
                 ELSE <<MlNoPrediction>>
    IN  IF CnnNamed(cnn_result) THEN Append(first, CnnSuggests(Val(cnn_result)))
        ELSE IF ~IsNone(cnn_result) THEN Append(first, CnnTopIndex(Val(cnn_result)))
        ELSE Append(first, "The CNN model is unavailable.")

\* reply_parts
ReplyParts(ml_pred_value, cnn_result) ==
    LET first == IF ~IsNone(ml_pred_value) THEN <<MlSuggests(Val(ml_pred_value))>>
                 ELSE <<MlNoPrediction>>
    IN  IF CnnNamed(cnn_result) THEN Append(first, CnnSuggests(Val(cnn_result)))
        ELSE IF ~IsNone(cnn_result) THEN Append(first, CnnTopIndex(Val(cnn_result)))
        ELSE first

\* " ".join(reply_parts)
RECURSIVE JoinWords(_)
JoinWords(parts) ==
    IF parts = <<>> THEN ""
    ELSE IF Len(parts) = 1 THEN parts[1]
    ELSE parts[1] \o " " \o JoinWords(Tail(parts))

\* The preference reversed: the classical label first.
PrimaryPredictionClassicalFirst(ml_pred_value, cnn_result) ==
    IF ~IsNone(ml_pred_value) THEN Some(Val(ml_pred_value))
    ELSE IF CnnNamed(cnn_result) THEN Some(Val(Val(cnn_result).disease))
    ELSE None

\* primary_prediction
PrimaryPrediction(ml_pred_value, cnn_result) ==
    IF CnnNamed(cnn_result) THEN Some(Val(Val(cnn_result).disease))
    ELSE IF ~IsNone(ml_pred_value) THEN Some(Val(ml_pred_value))
    ELSE None

\* The confidence given only with a sequence label that resolved to a name.
ResponseConfidenceWhenNamed(cnn_result) ==
    IF CnnNamed(cnn_result) THEN Some(Val(cnn_result).confidence) ELSE None

\* response_body["confidence"]
ResponseConfidence(cnn_result) ==
    IF ~IsNone(cnn_result) THEN Some(Val(cnn_result).confidence) ELSE None

AskAge == "Please enter your age:"
AskGender == "Please enter your gender:"
AskSymptoms ==
    "Now, please describe at least 3 of your symptoms with their intensity and duration."
AskMoreDetail ==
    "I couldn't reliably extract symptoms from that. Please describe your symptoms with more detail."

\* ------------------------------ the environment ------------------------
\* A blank message, a padded name, and a sentence naming a common symptom.
Messages ==
    { <<" ">>,
      <<" ", "A", "l", " ">>,
      <<"a", " ", "f", "e", "v", "e", "r", ".">> }

\* What model_pipeline.pkl's predict does once loaded: raise, return a
\* one-element array, or return an array of another shape.
MlBehaviours ==
    { [kind |-> "raises"],
      [kind |-> "returns", labels |-> <<"Flu">>],
      [kind |-> "returns", labels |-> <<"Flu", "Cold">>] }

\* What cnn_model.h5's predict does once loaded: raise, or return the
\* probabilities of the classes.
ProbVectors == { <<8333, 1667>>, <<1664, 8336>>, <<9375, 625>> }
CnnBehaviours ==
    {[kind |-> "raises"]} \cup {[kind |-> "probs", probs |-> p] : p \in ProbVectors}

\* disease_mapping.csv: unreadable, or a table from class index to name.
DiseaseMappings ==
    { None,
      Some([c \in {1} |-> "Migraine"]),
      Some([c \in {0, 1} |-> IF c = 0 THEN "Flu" ELSE "Migraine"]) }

\* ------------------------------ state ----------------------------------
VARIABLES
    proc,                       \* "boot", "serving", or "crashed" (import failed)
    load_log,                   \* how often and how each artifact load went
    advanced_extract_symptoms,  \* chatbot.py:24-27, None or the rich extractor
    ADV_SYMPTOM_VOCAB,          \* chatbot.py:24-27, None or nlp.symptoms_list
    ml_model,                   \* chatbot.py:130
    cnn_model,                  \* chatbot.py:133-138
    disease_mapping_csv,        \* the file _run_cnn_prediction reads
    user_info,                  \* chatbot.py:141
    _current_report_path,       \* helper.py:28
    report_files,               \* the files under reports/, by creation order
    reports_json,               \* data/reports.json
    response,                   \* what the last _handle_chat_message returned
    turn,                       \* what the last _handle_chat_message invoked
    n_msgs,                     \* messages handled
    n_extract,                  \* symptom extractions invoked
    setup_log,                  \* the messages received before all fields were set
    storage,                    \* which of reports/ and data/reports.json take a write
    uuid_count,                 \* the identifiers uuid.uuid4() has handed out
    threads,                    \* per end user, the thread serving their request
    audit,                      \* who filled each field, and the cycles completed
    vec_call,                   \* a direct call of _vectorize_symptoms_for_cnn
    parse_call,                 \* a direct call of parse_symptoms_from_text
    extract_call                \* a direct call of extract_symptoms_from_text

vars == <<proc, load_log, advanced_extract_symptoms, ADV_SYMPTOM_VOCAB, ml_model,
          cnn_model, disease_mapping_csv, user_info, _current_report_path,
          report_files, reports_json, response, turn, n_msgs, n_extract,
          setup_log, storage, uuid_count, threads, audit, vec_call,
                   parse_call, extract_call>>

NoTurn ==
    [extract_called |-> FALSE, ml_predict_called |-> FALSE,
     cnn_predict_called |-> FALSE, symptoms |-> None, ml_input_text |-> None,
     ml_pred_value |-> None, cnn_result |-> None,
     report_created |-> FALSE, create_user_pdf_called |-> FALSE,
     append_output_called |-> FALSE, write_failed |-> FALSE, raised |-> FALSE]

\* Two end users whose requests interleave.  Each has at most one request
\* in flight, served by a thread of its own.
Senders == {"u1", "u2"}

\* A thread that handles no request.  While it handles one: the branch of
\* _handle_chat_message it is in, the message, and the locals `report`,
\* `reports` and `response_body`.
IdleThread ==
    [pc |-> "idle", user_text |-> <<>>, reports |-> <<>>,
     report |-> None, response_body |-> None]

\* Bookkeeping for the properties, no state of the program: the sender whose
\* message filled each field last, the sender of each field of the patient
\* snapshot of each report built (by report_id), and the report_id of every
\* completed prediction cycle in the order of the appends.
NoAudit == [slot_sender |-> EmptyDict, built |-> <<>>, completed |-> <<>>]

\* Every write of Path.write_text succeeds.
Writable == [reports_dir |-> TRUE, reports_json |-> TRUE]

InitProcess ==
    /\ proc = "boot"
    /\ load_log = [ml |-> "not_attempted", cnn |-> "not_attempted",
                   ml_attempts |-> 0, cnn_attempts |-> 0]
    /\ advanced_extract_symptoms = None
    /\ ADV_SYMPTOM_VOCAB = None
    /\ ml_model = None
    /\ cnn_model = None
    /\ disease_mapping_csv = None
    /\ user_info = EmptyDict
    /\ _current_report_path = None
    /\ report_files = <<>>
    /\ reports_json = <<>>
    /\ response = None
    /\ turn = NoTurn
    /\ n_msgs = 0
    /\ n_extract = 0
    /\ setup_log = <<>>
    /\ storage = Writable
    /\ uuid_count = 0
    /\ threads = [t \in Senders |-> IdleThread]
    /\ audit = NoAudit

Init == InitProcess /\ vec_call = None /\ parse_call = None /\ extract_call = None

\* ------------------------------ startup --------------------------------
\* load_ml_dl_artifact: the loaded object, or "raises" when the file is
\* missing or neither joblib nor pickle can read it.
MlLoadOutcomes ==
    {[how |-> "raises"]} \cup {[how |-> "loads", model |-> b] : b \in MlBehaviours}

\* The load wrapped in a try block that leaves the model None.
load_ml_dl_artifact_swallowing(outcome) ==
    IF outcome.how = "raises" THEN [raised |-> FALSE, value |-> None]
    ELSE [raised |-> FALSE, value |-> Some(outcome.model)]

load_ml_dl_artifact(outcome) ==
    IF outcome.how = "raises" THEN [raised |-> TRUE, value |-> None]
    ELSE [raised |-> FALSE, value |-> Some(outcome.model)]

\* chatbot.py:133-138: None when tensorflow is missing or load_model raises.
CnnLoadOutcomes ==
    {[how |-> "no_keras"], [how |-> "raises"]}
        \cup {[how |-> "loads", model |-> b] : b \in CnnBehaviours}
LoadCnnModel(outcome) ==
    IF outcome.how = "no_keras" \/ outcome.how = "raises" THEN None
    ELSE Some(outcome.model)

\* The module-level code of chatbot.py, run once when the process starts,
\* in an installation drawn from the given outcomes of the nlp import, the two
\* loads and the mapping file.  An exception of load_ml_dl_artifact is not
\* caught: the import fails and the process serves nothing.
StartupWith(nlp_outcomes, ml_outcomes, cnn_outcomes, mappings) ==
    /\ proc = "boot"
    /\ \E nlp_imports \in nlp_outcomes, ml_outcome \in ml_outcomes,
          cnn_outcome \in cnn_outcomes, mapping \in mappings :
        LET ml == load_ml_dl_artifact(ml_outcome)
        IN  /\ advanced_extract_symptoms' =
                   IF nlp_imports THEN Some("extract_symptoms_from_text") ELSE None
            /\ ADV_SYMPTOM_VOCAB' = IF nlp_imports THEN Some(symptoms_list) ELSE None
            /\ disease_mapping_csv' = mapping
            /\ IF ml.raised
               THEN /\ proc' = "crashed"
                    /\ ml_model' = None
                    /\ cnn_model' = None
                    /\ load_log' = [ml |-> IF ml_outcome.how = "raises"
                                           THEN "failed" ELSE "loaded",
                                    cnn |-> "not_attempted",
                                    ml_attempts |-> 1, cnn_attempts |-> 0]
               ELSE /\ proc' = "serving"
                    /\ ml_model' = ml.value
                    /\ cnn_model' = LoadCnnModel(cnn_outcome)
                    /\ load_log' = [ml |-> IF ml_outcome.how = "raises"
                                           THEN "failed" ELSE "loaded",
                                    cnn |-> IF IsNone(LoadCnnModel(cnn_outcome))
                                            THEN "failed" ELSE "loaded",
                                    ml_attempts |-> 1,
                                    cnn_attempts |-> IF cnn_outcome.how = "no_keras" THEN 0 ELSE 1]
    /\ UNCHANGED <<user_info, _current_report_path, report_files, reports_json,
                   response, turn, n_msgs, n_extract, setup_log, storage,
                   uuid_count, threads, audit, vec_call,
                   parse_call, extract_call>>

Startup == StartupWith(BOOLEAN, MlLoadOutcomes, CnnLoadOutcomes, DiseaseMappings)

\* ------------------------------ src/helper.py: report file -------------
\* _ensure_report_file / create_user_pdf: names a new file, makes it the
\* current report path, then writes the header.  The path is assigned before
\* the write (helper.py:61 and 67), so a write that fails leaves the current
\* path naming a file that does not exist, and the OSError leaves the call.
\* Nothing in the program removes a report file.
create_user_pdf(files, name, age, gender, writable) ==
    LET header == [exists |-> writable,
                   patient |-> [name |-> name, age |-> age, gender |-> gender],
                   entries |-> <<>>]
    IN  [path |-> Some(Len(files) + 1), files |-> Append(files, header),
         raised |-> ~writable]

\* append_output_to_pdf: creates the "anonymous" file when there is no
\* current one or it does not exist, then appends the entry to the current
\* file.  A write that fails leaves the file as it was.
append_output_to_pdf(path, files, ml_output, writable) ==
    LET missing == IsNone(path) \/ ~files[Val(path)].exists
        ensured == IF missing
                   THEN create_user_pdf(files, Anonymous, NotAvailable, NotAvailable,
                                        writable)
                   ELSE [path |-> path, files |-> files, raised |-> FALSE]
        p == Val(ensured.path)
    IN  IF ensured.raised \/ ~writable
        THEN [path |-> ensured.path, anonymous_created |-> missing,
              files |-> ensured.files, raised |-> TRUE]
        ELSE [path |-> ensured.path, anonymous_created |-> missing,
              files |-> [ensured.files EXCEPT ![p].entries =
                             Append(@, [model_output |-> ml_output])],
              raised |-> FALSE]

\* ------------------------------ chatbot.py: the handler ----------------
\* A copy-paste slip: every branch tests the "name" field.
InfoSetNameOnly(info, k) == Truthy(DictGet(info, "name", <<>>))

\* user_info.get(k) as a truth value
InfoSet(info, k) == Truthy(DictGet(info, k, <<>>))

\* The extractor chosen at import time, applied to user_text: the lists it
\* can return.
ExtractionResults(user_text, advanced) ==
    IF ~IsNone(advanced)
    THEN UNION {extract_symptoms_from_text(l) : l \in SentenceLemmaSets(user_text)}
    ELSE {parse_symptoms_from_text(user_text)}

\* The emptiness test left out.
IsEmptyExtractionOmitted(symptoms) == FALSE

\* `if not symptoms` (chatbot.py:244)
IsEmptyExtraction(symptoms) == ~Truthy(symptoms)

\* What an exception that leaves the handler gives the caller instead of a
\* response body.
Raised(exception) == Some([raised |-> exception])

\* The slot-filling part of _handle_chat_message (chatbot.py:223-235).
FillSlot(user_text, key, prompt, with_pdf) ==
    LET info == DictPut(user_info, key, strip(user_text))
        pdf == create_user_pdf(report_files, info["name"], info["age"], info["gender"],
                               storage.reports_dir)
        failed == with_pdf /\ pdf.raised
    IN  /\ user_info' = info
        /\ response' = IF failed THEN Raised("OSError") ELSE Some([answer |-> prompt])
        /\ turn' = [NoTurn EXCEPT !.create_user_pdf_called = with_pdf,
                                  !.write_failed = failed,
                                  !.raised = failed]
        /\ setup_log' = Append(setup_log, user_text)
        /\ IF with_pdf
           THEN /\ _current_report_path' = pdf.path
                /\ report_files' = pdf.files
           ELSE UNCHANGED <<_current_report_path, report_files>>
        /\ UNCHANGED <<reports_json, n_extract, uuid_count>>

\* chatbot.py:249-314 and 322-363 for a non-empty list of symptoms: the two
\* predictions, the report, the payload for the report file and the response
\* body, none of which reads or writes a file.
CycleValues(symptoms) ==
    LET ml_input_text == join(<<",", " ">>, symptoms)
        ml == ClassicalPredict(ml_model)
        ml_pred_value == ml.value
        cnn == _run_cnn_prediction(symptoms, cnn_model, ADV_SYMPTOM_VOCAB,
                                   disease_mapping_csv)
        cnn_result == cnn.result
        predictions_block == BuildPredictionsBlock(ml_pred_value, cnn_result)
        report == BuildReport(uuid_count + 1, user_info, symptoms, predictions_block)
    IN  [ml |-> ml,
         cnn |-> cnn,
         report |-> report,
         report_payload |-> [symptoms |-> symptoms,
                             ml_prediction |-> ml_pred_value,
                             cnn_prediction |-> cnn_result,
                             structured_report |-> report],
         response_body |-> [answer |-> JoinWords(ReplyParts(ml_pred_value, cnn_result)),
                            symptoms |-> symptoms,
                            prediction |-> PrimaryPrediction(ml_pred_value, cnn_result),
                            confidence |-> ResponseConfidence(cnn_result),
                            report |-> report],
         called |-> [NoTurn EXCEPT !.extract_called = TRUE,
                                   !.ml_predict_called = ml.predict_called,
                                   !.cnn_predict_called = cnn.predict_called,
                                   !.symptoms = Some(symptoms),
                                   !.ml_input_text = IF ml.predict_called
                                                     THEN Some(ml_input_text) ELSE None,
                                   !.ml_pred_value = ml_pred_value,
                                   !.cnn_result = cnn_result]]

\* The prediction cycle of _handle_chat_message (chatbot.py:249-365) for a
\* non-empty list of symptoms.  Neither append_output_to_pdf (line 315) nor
\* _save_reports (line 320) is inside a try block.
PredictionCycle(symptoms) ==
    LET c == CycleValues(symptoms)
        pdf == append_output_to_pdf(_current_report_path, report_files,
                                    c.report_payload, storage.reports_dir)
        built == [c.called EXCEPT !.report_created = TRUE,
                                  !.create_user_pdf_called = pdf.anonymous_created,
                                  !.append_output_called = TRUE]
    IN  IF c.ml.raised \/ c.cnn.raised
        THEN \* an exception no except clause caught leaves the handler
             /\ response' = Raised("Exception")
             /\ turn' = [c.called EXCEPT !.raised = TRUE]
             /\ UNCHANGED <<_current_report_path, report_files, reports_json,
                            uuid_count>>
        ELSE /\ uuid_count' = uuid_count + 1
             /\ _current_report_path' = pdf.path
             /\ report_files' = pdf.files
             /\ IF pdf.raised \/ ~storage.reports_json
                THEN \* the OSError of write_text leaves the handler
                     /\ UNCHANGED reports_json
                     /\ response' = Raised("OSError")
                     /\ turn' = [built EXCEPT !.write_failed = TRUE, !.raised = TRUE]
                ELSE /\ reports_json' = Append(reports_json, c.report)
                     /\ response' = Some(c.response_body)
                     /\ turn' = built

\* _handle_chat_message(user_text), the whole call.
_handle_chat_message(user_text) ==
    /\ proc = "serving"
    /\ n_msgs < MaxMsgs
    /\ Len(reports_json) < MaxReports
    /\ n_msgs' = n_msgs + 1
    /\ IF ~InfoSet(user_info, "name")
       THEN FillSlot(user_text, "name", AskAge, FALSE)
       ELSE IF ~InfoSet(user_info, "age")
       THEN FillSlot(user_text, "age", AskGender, FALSE)
       ELSE IF ~InfoSet(user_info, "gender")
       THEN FillSlot(user_text, "gender", AskSymptoms, TRUE)
       ELSE /\ n_extract' = n_extract + 1
            /\ UNCHANGED <<user_info, setup_log>>
            /\ \E symptoms \in ExtractionResults(user_text, advanced_extract_symptoms) :
                 IF IsEmptyExtraction(symptoms)
                 THEN /\ response' = Some([answer |-> AskMoreDetail])
                      /\ turn' = [NoTurn EXCEPT !.extract_called = TRUE,
                                                !.symptoms = Some(symptoms)]
                      /\ UNCHANGED <<_current_report_path, report_files, reports_json,
                                     uuid_count>>
                 ELSE PredictionCycle(symptoms)
    /\ UNCHANGED <<proc, load_log, advanced_extract_symptoms, ADV_SYMPTOM_VOCAB,
                   ml_model, cnn_model, disease_mapping_csv, storage, threads,
                   audit, vec_call,
                   parse_call, extract_call>>

Next ==
    \/ Startup
    \/ \E user_text \in Messages : _handle_chat_message(user_text)

Spec == Init /\ [][Next]_vars

\* ------------------ _vectorize_symptoms_for_cnn on its own --------------
\* Labels a symptom list can hold: the vocabulary's, a common symptom the
\* vocabulary lacks, and a free-text fragment of the fallback extractor.
VecLabels ==
    {symptoms_list[i] : i \in 1..Len(symptoms_list)}
        \cup { <<"r", "a", "s", "h">>, <<"A", "l">> }

RECURSIVE SeqsUpTo(_, _)
SeqsUpTo(S, n) ==
    IF n = 0 THEN {<<>>}
    ELSE LET shorter == SeqsUpTo(S, n - 1)
         IN  shorter \cup {Append(q, x) : q \in {r \in shorter : Len(r) = n - 1}, x \in S}

InitVec ==
    /\ InitProcess
    /\ \E s \in SeqsUpTo(VecLabels, MaxSymptoms), v \in {None, Some(symptoms_list)} :
          vec_call = Some([extracted_symptoms |-> s, adv_vocab |-> v,
                           returned |-> FALSE, result |-> None])
    /\ parse_call = None
    /\ extract_call = None

CallVectorize ==
    /\ ~IsNone(vec_call)
    /\ ~Val(vec_call).returned
    /\ vec_call' = Some([Val(vec_call) EXCEPT
            !.returned = TRUE,
            !.result = _vectorize_symptoms_for_cnn(Val(vec_call).extracted_symptoms,
                                                   Val(vec_call).adv_vocab)])
    /\ UNCHANGED <<proc, load_log, advanced_extract_symptoms, ADV_SYMPTOM_VOCAB,
                   ml_model, cnn_model, disease_mapping_csv, user_info,
                   _current_report_path, report_files, reports_json, response,
                   turn, n_msgs, n_extract, setup_log, storage, uuid_count,
                   threads, audit, parse_call, extract_call>>

NextVec == CallVectorize

SpecVec == InitVec /\ [][NextVec]_vars

\* ------------------ parse_symptoms_from_text on its own ----------------
\* Texts are made of up to MaxPieces of these pieces: symptom names in lower
\* and mixed case, a name that two pieces spell together, the separators, a
\* space, and a run of four fragments.
ParsePieces ==
    { <<"f", "e", "v", "e", "r">>,
      <<" ", "C", "o", "u", "g", "h">>,
      <<",">>,
      <<".">>,
      <<" ">>,
      <<"h", "e", "a", "d">>,
      <<"a", "c", "h", "e">>,
      <<"a", ",", "b", ".", "c", ",", "d", " ">> }

\* The sentence of the specification's fallback example.
FeverAndCough ==
    <<"I", " ", "h", "a", "v", "e", " ", "a", " ", "f", "e", "v", "e", "r", " ", "a", "n", "d", " ", "a", " ", "b", "a", "d", " ", "c", "o", "u", "g", "h", ".">>

ParseTexts ==
    {join(<<>>, q) : q \in SeqsUpTo(ParsePieces, MaxPieces)} \cup {FeverAndCough}

InitParse ==
    /\ InitProcess
    /\ vec_call = None
    /\ extract_call = None
    /\ \E t \in ParseTexts :
          parse_call = Some([user_text |-> t, returned |-> FALSE, result |-> <<>>])

CallParse ==
    /\ ~IsNone(parse_call)
    /\ ~Val(parse_call).returned
    /\ parse_call' = Some([Val(parse_call) EXCEPT
            !.returned = TRUE,
            !.result = parse_symptoms_from_text(Val(parse_call).user_text)])
    /\ UNCHANGED <<proc, load_log, advanced_extract_symptoms, ADV_SYMPTOM_VOCAB,
                   ml_model, cnn_model, disease_mapping_csv, user_info,
                   _current_report_path, report_files, reports_json, response,
                   turn, n_msgs, n_extract, setup_log, storage, uuid_count,
                   threads, audit, vec_call, extract_call>>

NextParse == CallParse

SpecParse == InitParse /\ [][NextParse]_vars

\* ------------------ extract_symptoms_from_text on its own --------------
\* Lemmas a sentence can hold: lemmas of the labels and one of no label.
LemmaUniverse ==
    {"anxiety", "nervousness", "depression", "shortness", "breath", "psychotic", "knee"}

\* Tables of label lemma sets: the one of symptoms_list, and one with a fifth
\* label that consists of stop words only, whose lemma set is empty.
MetaTables == {symptom_meta, Append(symptom_meta, {})}

InitExtract ==
    /\ InitProcess
    /\ vec_call = None
    /\ parse_call = None
    /\ \E l \in SUBSET LemmaUniverse, meta \in MetaTables :
          extract_call = Some([sentence_lemmas |-> l, meta |-> meta, returned |-> FALSE,
                               raised |-> FALSE, found |-> {}])

CallExtract ==
    /\ ~IsNone(extract_call)
    /\ ~Val(extract_call).returned
    /\ LET out == ExtractOver(Val(extract_call).sentence_lemmas, Val(extract_call).meta)
       IN  extract_call' = Some([Val(extract_call) EXCEPT
               !.returned = TRUE, !.raised = out.raised, !.found = out.found])
    /\ UNCHANGED <<proc, load_log, advanced_extract_symptoms, ADV_SYMPTOM_VOCAB,
                   ml_model, cnn_model, disease_mapping_csv, user_info,
                   _current_report_path, report_files, reports_json, response,
                   turn, n_msgs, n_extract, setup_log, storage, uuid_count,
                   threads, audit, vec_call, parse_call>>

NextExtract == CallExtract

SpecExtract == InitExtract /\ [][NextExtract]_vars

\* ------------------ the handler over storage that can fail -------------
\* The file system under the serving process: writes under reports/ or to
\* data/reports.json begin or cease to fail (a full disk, a read-only mount).
StorageStates == [reports_dir : BOOLEAN, reports_json : BOOLEAN]

StorageChange ==
    /\ proc = "serving"
    /\ \E st \in StorageStates \ {storage} : storage' = st
    /\ UNCHANGED <<proc, load_log, advanced_extract_symptoms, ADV_SYMPTOM_VOCAB,
                   ml_model, cnn_model, disease_mapping_csv, user_info,
                   _current_report_path, report_files, reports_json, response,
                   turn, n_msgs, n_extract, setup_log, uuid_count, threads,
                   audit, vec_call,
                   parse_call, extract_call>>

\* Installations with and without the nlp import and the sequence model; the
\* classical model loads or its artifact is missing.
StartupOneModelSet ==
    StartupWith(BOOLEAN,
                {[how |-> "raises"],
                 [how |-> "loads", model |-> [kind |-> "returns", labels |-> <<"Flu">>]]},
                {[how |-> "no_keras"],
                 [how |-> "loads", model |-> [kind |-> "probs", probs |-> <<8333, 1667>>]]},
                {Some([c \in {0, 1} |-> IF c = 0 THEN "Flu" ELSE "Migraine"])})

NextWriteFail ==
    \/ StartupOneModelSet
    \/ StorageChange
    \/ \E user_text \in Messages : _handle_chat_message(user_text)

SpecWriteFail == Init /\ [][NextWriteFail]_vars

\* ------------------ two request threads --------------------------------
\* app.run (chatbot.py:516) serves each request on a thread of its own, and
\* _handle_chat_message takes no lock, so the calls of two requests
\* interleave.  A thread is switched out between the test of user_info and
\* the assignment to it, and around each read and write of a file.

\* An installation without the nlp dependencies and without tensorflow: the
\* fallback extractor and the classical model alone, or a missing artifact.
StartupFallbackOnly ==
    StartupWith({FALSE},
                {[how |-> "raises"],
                 [how |-> "loads", model |-> [kind |-> "returns", labels |-> <<"Flu">>]]},
                {[how |-> "no_keras"]},
                {None})

\* The if-chain taking the fields from last to first.
RouteGenderFirst(info) ==
    IF ~InfoSet(info, "gender") THEN "gender"
    ELSE IF ~InfoSet(info, "age") THEN "age"
    ELSE IF ~InfoSet(info, "name") THEN "name"
    ELSE "symptoms"

\* The branch the if-chain of chatbot.py:223-229 takes.
Route(info) ==
    IF ~InfoSet(info, "name") THEN "name"
    ELSE IF ~InfoSet(info, "age") THEN "age"
    ELSE IF ~InfoSet(info, "gender") THEN "gender"
    ELSE "symptoms"

Prompt(key) ==
    IF key = "name" THEN AskAge ELSE IF key = "age" THEN AskGender ELSE AskSymptoms

\* get_bot_response / api_chatbot_message: a request of end user t arrives,
\* and its thread enters _handle_chat_message and tests user_info.
BeginRequest(t, user_text) ==
    /\ proc = "serving"
    /\ threads[t].pc = "idle"
    /\ n_msgs < MaxMsgs
    /\ uuid_count < MaxReports
    /\ n_msgs' = n_msgs + 1
    /\ threads' = [threads EXCEPT ![t] =
            [IdleThread EXCEPT !.pc = Route(user_info), !.user_text = user_text]]
    /\ UNCHANGED <<proc, load_log, advanced_extract_symptoms, ADV_SYMPTOM_VOCAB,
                   ml_model, cnn_model, disease_mapping_csv, user_info,
                   _current_report_path, report_files, reports_json, response,
                   turn, n_extract, setup_log, storage, uuid_count, audit, vec_call,
                   parse_call, extract_call>>

\* chatbot.py:224, 227 or 230-235: the assignment to user_info and the return.
SetSlot(t) ==
    /\ threads[t].pc \in {"name", "age", "gender"}
    /\ FillSlot(threads[t].user_text, threads[t].pc, Prompt(threads[t].pc),
                threads[t].pc = "gender")
    /\ audit' = [audit EXCEPT !.slot_sender =
                     DictPut(@, threads[t].pc, t)]
    /\ threads' = [threads EXCEPT ![t] = IdleThread]
    /\ UNCHANGED <<proc, load_log, advanced_extract_symptoms, ADV_SYMPTOM_VOCAB,
                   ml_model, cnn_model, disease_mapping_csv, n_msgs, storage,
                   vec_call,
                   parse_call, extract_call>>

\* chatbot.py:240-315: extraction, both predictions, the report and
\* append_output_to_pdf.
PredictAndAppend(t) ==
    /\ threads[t].pc = "symptoms"
    /\ n_extract' = n_extract + 1
    /\ \E symptoms \in ExtractionResults(threads[t].user_text, advanced_extract_symptoms) :
         IF IsEmptyExtraction(symptoms)
         THEN /\ response' = Some([answer |-> AskMoreDetail])
              /\ turn' = [NoTurn EXCEPT !.extract_called = TRUE,
                                        !.symptoms = Some(symptoms)]
              /\ threads' = [threads EXCEPT ![t] = IdleThread]
              /\ UNCHANGED <<_current_report_path, report_files, uuid_count, audit>>
         ELSE LET c == CycleValues(symptoms)
                  pdf == append_output_to_pdf(_current_report_path, report_files,
                                              c.report_payload, storage.reports_dir)
              IN  /\ uuid_count' = uuid_count + 1
                  /\ _current_report_path' = pdf.path
                  /\ report_files' = pdf.files
                  /\ turn' = [c.called EXCEPT
                                  !.report_created = TRUE,
                                  !.create_user_pdf_called = pdf.anonymous_created,
                                  !.append_output_called = TRUE]
                  /\ threads' = [threads EXCEPT ![t].pc = "load",
                                                ![t].report = Some(c.report),
                                                ![t].response_body = Some(c.response_body)]
                  /\ audit' = [audit EXCEPT !.built = Append(@, audit.slot_sender)]
                  /\ UNCHANGED response
    /\ UNCHANGED <<proc, load_log, advanced_extract_symptoms, ADV_SYMPTOM_VOCAB,
                   ml_model, cnn_model, disease_mapping_csv, user_info, reports_json,
                   n_msgs, setup_log, storage, vec_call,
                   parse_call, extract_call>>

\* chatbot.py:318: reports = _load_reports()
LoadReports(t) ==
    /\ threads[t].pc = "load"
    /\ threads' = [threads EXCEPT ![t].pc = "save", ![t].reports = reports_json]
    /\ UNCHANGED <<proc, load_log, advanced_extract_symptoms, ADV_SYMPTOM_VOCAB,
                   ml_model, cnn_model, disease_mapping_csv, user_info,
                   _current_report_path, report_files, reports_json, response,
                   turn, n_msgs, n_extract, setup_log, storage, uuid_count, audit,
                   vec_call,
                   parse_call, extract_call>>

\* chatbot.py:319-365: reports.append(report), _save_reports(reports), and
\* the response body goes back to the sender.
SaveReports(t) ==
    /\ threads[t].pc = "save"
    /\ reports_json' = Append(threads[t].reports, Val(threads[t].report))
    /\ response' = threads[t].response_body
    /\ audit' = [audit EXCEPT !.completed = Append(@, Val(threads[t].report).report_id)]
    /\ threads' = [threads EXCEPT ![t] = IdleThread]
    /\ UNCHANGED <<proc, load_log, advanced_extract_symptoms, ADV_SYMPTOM_VOCAB,
                   ml_model, cnn_model, disease_mapping_csv, user_info,
                   _current_report_path, report_files, turn, n_msgs, n_extract,
                   setup_log, storage, uuid_count, vec_call,
                   parse_call, extract_call>>

NextThreads ==
    \/ StartupFallbackOnly
    \/ \E t \in Senders, user_text \in Messages : BeginRequest(t, user_text)
    \/ \E t \in Senders : SetSlot(t)
    \/ \E t \in Senders : PredictAndAppend(t)
    \/ \E t \in Senders : LoadReports(t)
    \/ \E t \in Senders : SaveReports(t)

SpecThreads == Init /\ [][NextThreads]_vars

\* ====================== properties of the handler ======================
NonBlank(m) == strip(m) # <<>>

\* The state of the slot-filler, read off user_info.
FieldSet(k) == k \in DOMAIN user_info /\ user_info[k] # <<>>
ConversationState ==
    IF ~FieldSet("name") THEN "AwaitingName"
    ELSE IF ~FieldSet("age") THEN "AwaitingAge"
    ELSE IF ~FieldSet("gender") THEN "AwaitingGender"
    ELSE "AwaitingSymptoms"

States == <<"AwaitingName", "AwaitingAge", "AwaitingGender", "AwaitingSymptoms">>
Slots == <<"name", "age", "gender">>

\* No blank message has arrived while a field was unset.
SetupNonBlank == \A i \in 1..Len(setup_log) : NonBlank(setup_log[i])

\* The last call of the handler ran the extractor and it returned a non-empty list.
CycleTurn == turn.extract_called /\ Truthy(Val(turn.symptoms))

\* C1, on states: while every setup message was non-blank, the k-th message
\* fills the k-th of name, age, gender with its trimmed text and leaves the
\* machine in the (k+1)-th state, at most three messages are setup messages,
\* none of them invokes the extractor, and every later message invokes it.
C1_Order ==
    SetupNonBlank =>
        /\ Len(setup_log) <= 3
        /\ ConversationState = States[Len(setup_log) + 1]
        /\ DOMAIN user_info = {Slots[i] : i \in 1..Len(setup_log)}
        /\ \A i \in 1..Len(setup_log) : user_info[Slots[i]] = strip(setup_log[i])
        /\ n_extract = n_msgs - Len(setup_log)
        /\ (n_msgs <= 3 => n_extract = 0 /\ ~turn.extract_called)
        /\ (n_msgs = 4 => n_extract = 1 /\ turn.extract_called)

\* C1, on steps: once three non-blank messages have set the fields, every
\* further message goes to the extractor and name, age and gender stay as
\* they are.
C1_Routing ==
    (SetupNonBlank /\ Len(setup_log) = 3 /\ n_msgs' # n_msgs) =>
        /\ user_info' = user_info
        /\ setup_log' = setup_log
        /\ n_extract' = n_extract + 1
        /\ turn'.extract_called
        /\ ConversationState' = "AwaitingSymptoms"

\* C1: three non-blank messages set name, age and gender in that order without
\* invoking extraction, the 4th message is the first to invoke it, and every
\* message from the 4th on is routed to extraction with the fields unchanged.
C1_SlotFillingThenExtraction == [](C1_Order) /\ [][C1_Routing]_vars

\* Five messages were handled, the first three non-blank, the last two extracted.
C1_Witness ==
    /\ SetupNonBlank /\ Len(setup_log) = 3
    /\ n_msgs = 5 /\ n_extract = 2
    /\ user_info["name"] # user_info["age"]

\* The last call of the handler ran the extractor and it returned nothing.
EmptyExtractionTurn == turn.extract_called /\ turn.symptoms = Some(<<>>)

C2_NoCycle ==
    EmptyExtractionTurn =>
        /\ response = Some([answer |-> AskMoreDetail])
        /\ ~turn.ml_predict_called
        /\ ~turn.cnn_predict_called
        /\ ~turn.report_created
        /\ ~turn.append_output_called

C2_NoWrite ==
    (n_msgs' # n_msgs /\ turn'.extract_called /\ turn'.symptoms = Some(<<>>)) =>
        /\ reports_json' = reports_json
        /\ report_files' = report_files
        /\ _current_report_path' = _current_report_path

\* C2: a turn whose extraction came back empty answers with the request for
\* more detail, invokes neither model's predict, creates no Report, appends
\* nothing to the report file and leaves the reports store as it was.
C2_EmptyExtractionShortCircuits == [](C2_NoCycle) /\ [][C2_NoWrite]_vars

\* An empty extraction after a report was already stored, with both models loaded.
C2_Witness ==
    /\ EmptyExtractionTurn
    /\ Len(reports_json) = 1
    /\ ~IsNone(cnn_model)
    /\ ~IsNone(advanced_extract_symptoms)

\* The response of the last call carries a reply and the Report that was
\* appended last to the reports store.
FullResponse ==
    /\ ~IsNone(response)
    /\ {"answer", "report"} \subseteq DOMAIN Val(response)
    /\ Val(response).answer # ""
    /\ Len(reports_json) >= 1
    /\ reports_json[Len(reports_json)] = Val(response).report
    /\ Val(response).report.report_id = Len(reports_json)

MlRaises == ~IsNone(ml_model) /\ Val(ml_model).kind = "raises"
CnnRaises == ~IsNone(cnn_model) /\ Val(cnn_model).kind = "raises"

\* C3: whatever the classical model does (returns, raises, is absent) and
\* whatever the sequence model does (returns, raises, is absent), a turn with a
\* non-empty extraction ends without an exception and returns a reply and a
\* Report; a predictor that raises or is absent counts as Unavailable.
C3_PredictorFailureNeverPropagates ==
    CycleTurn =>
        /\ ~turn.raised
        /\ turn.report_created
        /\ FullResponse
        /\ (IsNone(ml_model) \/ MlRaises => IsNone(turn.ml_pred_value))
        /\ (IsNone(cnn_model) \/ CnnRaises => IsNone(turn.cnn_result))

\* Both predicts were invoked, both raised, and the reply and Report came back.
C3_Witness ==
    /\ CycleTurn /\ MlRaises /\ CnnRaises
    /\ turn.ml_predict_called /\ turn.cnn_predict_called
    /\ FullResponse

\* C4: with both adapters Unavailable the predictions map is empty, the primary
\* prediction is none, the reply is the single "could not produce a reliable
\* prediction" sentence, and the Report is created, stored and returned.
C4_BothUnavailable ==
    (CycleTurn /\ IsNone(turn.ml_pred_value) /\ IsNone(turn.cnn_result)) =>
        /\ turn.report_created
        /\ FullResponse
        /\ Val(response).report.predictions = <<>>
        /\ Val(response).prediction = None
        /\ Val(response).answer = MlNoPrediction

\* The classical predict raised and the sequence model was never loaded.
C4_Witness ==
    /\ CycleTurn /\ MlRaises /\ IsNone(cnn_model)
    /\ turn.report_created
    /\ Val(response).report.predictions = <<>>

\* C5: whenever the classical adapter produced a value, the predictions map
\* holds its label at 100.0, whatever the sequence adapter produced.
C5_ClassicalAtFullConfidence ==
    (turn.report_created /\ ~IsNone(turn.ml_pred_value)) =>
        /\ HasKey(Val(response).report.predictions, Val(turn.ml_pred_value))
        /\ Lookup(Val(response).report.predictions, Val(turn.ml_pred_value)) = FullConfidence

SequenceResolved ==
    ~IsNone(turn.cnn_result) /\ ~IsNone(Val(turn.cnn_result).disease)

\* C6: the primary prediction is the sequence label when the class index
\* resolved to a name, else the classical label when there is one, else none.
C6_PrimaryPrediction ==
    turn.report_created =>
        /\ SequenceResolved =>
              Val(response).prediction = Val(turn.cnn_result).disease
        /\ (~SequenceResolved /\ ~IsNone(turn.ml_pred_value)) =>
              Val(response).prediction = turn.ml_pred_value
        /\ (~SequenceResolved /\ IsNone(turn.ml_pred_value)) =>
              Val(response).prediction = None

\* Both adapters produced a value, with different labels, and the sequence label won.
C6_Witness ==
    /\ turn.report_created /\ SequenceResolved /\ ~IsNone(turn.ml_pred_value)
    /\ Val(turn.cnn_result).disease # turn.ml_pred_value
    /\ Val(response).prediction = Val(turn.cnn_result).disease

\* The key the sequence entry has in the map.
SequenceKey ==
    IF SequenceResolved THEN Val(Val(turn.cnn_result).disease)
    ELSE "Class " \o ToString(Val(turn.cnn_result).class_index) \o " (CNN)"

\* C7: the sequence adapter's confidence c appears in the map under the resolved
\* label or the placeholder as c*100 rounded to one decimal: the entry (in tenths
\* of a percent) is within half a tenth of c*100, and 0.8333 appears as 83.3.
C7_SequenceEntryRounded ==
    (turn.report_created /\ ~IsNone(turn.cnn_result)) =>
        LET c == Val(turn.cnn_result).confidence
            map == Val(response).report.predictions
        IN  /\ HasKey(map, SequenceKey)
            /\ 10 * Lookup(map, SequenceKey) - 5 <= c
            /\ c <= 10 * Lookup(map, SequenceKey) + 5
            /\ (c = 8333 => Lookup(map, SequenceKey) = 833)

\* A probability of 0.8336 is in the map as 83.4 under the placeholder.
C7_Witness ==
    /\ turn.report_created /\ ~IsNone(turn.cnn_result) /\ ~SequenceResolved
    /\ Val(turn.cnn_result).confidence = 8336
    /\ Lookup(Val(response).report.predictions, SequenceKey) = 834

\* ====================== properties of the vectorizer ===================
Elements(q) == {q[i] : i \in 1..Len(q)}

RECURSIVE SumSeq(_)
SumSeq(q) == IF q = <<>> THEN 0 ELSE Head(q) + SumSeq(Tail(q))

\* C8: an empty list yields no vector; a non-empty list with the vocabulary
\* available yields a vector as long as the vocabulary, 1 exactly at the indices
\* of the vocabulary labels the list holds and 0 elsewhere, so its ones count the
\* list's members that are vocabulary labels and other labels are ignored.
C8_OneHotVector ==
    (~IsNone(vec_call) /\ Val(vec_call).returned) =>
        LET S == Val(vec_call).extracted_symptoms
            v == Val(vec_call).adv_vocab
            out == Val(vec_call).result
        IN  /\ S = <<>> => IsNone(out)
            /\ (S # <<>> /\ ~IsNone(v)) =>
                  /\ ~IsNone(out)
                  /\ Len(Val(out)) = Len(Val(v))
                  /\ \A i \in 1..Len(Val(v)) :
                        Val(out)[i] = IF Val(v)[i] \in Elements(S) THEN 1 ELSE 0
                  /\ SumSeq(Val(out)) = Cardinality(Elements(S) \cap Elements(Val(v)))

\* A list of two vocabulary labels and one other label gave a vector with two ones.
C8_Witness ==
    /\ ~IsNone(vec_call) /\ Val(vec_call).returned
    /\ ~IsNone(Val(vec_call).adv_vocab)
    /\ Len(Val(vec_call).extracted_symptoms) = 3
    /\ <<"A", "l">> \in Elements(Val(vec_call).extracted_symptoms)
    /\ ~IsNone(Val(vec_call).result)
    /\ SumSeq(Val(Val(vec_call).result)) = 2

\* ====================== properties of the adapters =====================
\* C9: cnn_model.predict is invoked only for a non-empty symptom list with the
\* rich vocabulary available; with an empty list or without the vocabulary the
\* sequence adapter is Unavailable, so a process running the fallback extractor
\* never gets a sequence result.
C9_NoPredictWithoutVector ==
    /\ turn.cnn_predict_called =>
          Truthy(Val(turn.symptoms)) /\ ~IsNone(ADV_SYMPTOM_VOCAB)
    /\ (turn.extract_called /\ (turn.symptoms = Some(<<>>) \/ IsNone(ADV_SYMPTOM_VOCAB))) =>
          IsNone(turn.cnn_result) /\ ~turn.cnn_predict_called
    /\ (proc = "serving" /\ IsNone(advanced_extract_symptoms)) =>
          /\ IsNone(turn.cnn_result) /\ ~turn.cnn_predict_called
          /\ (turn.report_created => IsNone(Val(response).confidence))
    /\ \A m \in CnnBehaviours, map \in DiseaseMappings :
          LET empty == _run_cnn_prediction(<<>>, Some(m), Some(symptoms_list), map)
              novocab == _run_cnn_prediction(<<symptoms_list[1]>>, Some(m), None, map)
          IN  /\ IsNone(empty.result) /\ ~empty.predict_called
              /\ IsNone(novocab.result) /\ ~novocab.predict_called

\* A fallback process whose sequence model loaded and would return
\* probabilities stored a report without a sequence result.
C9_Witness ==
    /\ proc = "serving" /\ IsNone(advanced_extract_symptoms)
    /\ ~IsNone(cnn_model) /\ Val(cnn_model).kind = "probs"
    /\ turn.report_created
    /\ IsNone(turn.cnn_result)

\* C10 as stated: after a failed load of either artifact the process serves
\* requests with that adapter Unavailable.
C10_EitherLoadFailureDegrades ==
    /\ load_log.ml = "failed" => proc = "serving" /\ IsNone(ml_model)
    /\ load_log.cnn = "failed" => proc = "serving" /\ IsNone(cnn_model)

C10_State ==
    /\ load_log.cnn = "failed" =>
          /\ proc = "serving" /\ IsNone(cnn_model)
          /\ IsNone(turn.cnn_result) /\ ~turn.cnn_predict_called
    /\ load_log.ml = "failed" =>
          /\ proc = "crashed"
          /\ n_msgs = 0 /\ IsNone(response)
    /\ load_log.ml_attempts <= 1
    /\ load_log.cnn_attempts <= 1

C10_Step ==
    proc # "boot" =>
        /\ proc' = proc
        /\ load_log' = load_log
        /\ ml_model' = ml_model
        /\ cnn_model' = cnn_model

\* C10, amended: a failed load of cnn_model.h5 leaves the process serving with
\* the sequence adapter Unavailable for good; a failed load of
\* model_pipeline.pkl ends the import, and the process serves no request; no
\* load is attempted again after startup.
C10_LoadFailureAtStartup == [](C10_State) /\ [][C10_Step]_vars

\* The sequence model failed to load and the process answered five messages,
\* the last with a report.
C10_Witness ==
    /\ load_log.cnn = "failed" /\ load_log.cnn_attempts = 1
    /\ proc = "serving"
    /\ n_msgs = 5
    /\ turn.report_created

\* ====================== persistence ====================================
\* The last call of the handler returned a response body that carries a reply
\* and a Report.
ReplyAndReport ==
    /\ ~IsNone(response)
    /\ {"answer", "report"} \subseteq DOMAIN Val(response)
    /\ Val(response).answer # ""

\* The last call of the handler was a prediction cycle in which a write of the
\* report file or of the reports store failed.
WriteFailedInCycle == CycleTurn /\ turn.report_created /\ turn.write_failed

\* C11: when appending the model output to the report file or saving the
\* reports store fails during a prediction cycle, the handler still returns
\* the reply and the Report of that turn.
C11_ReplyDespiteWriteFailure ==
    WriteFailedInCycle => ~turn.raised /\ ReplyAndReport

\* ====================== interleaved requests ===========================
\* The report_ids the reports store lists, in its order.
StoredIds == [i \in 1..Len(reports_json) |-> reports_json[i].report_id]

\* C12: under every schedule of two handlers whose load, append and save
\* steps interleave, the reports store lists exactly the Reports of the
\* completed prediction cycles, each once, in the order of their appends.
C12_OneReportPerCompletedCycle == StoredIds = audit.completed

\* The branch of the handler that serves the state of the slot-filler.
BranchOf(state) ==
    CASE state = "AwaitingName" -> "name"
      [] state = "AwaitingAge" -> "age"
      [] state = "AwaitingGender" -> "gender"
      [] state = "AwaitingSymptoms" -> "symptoms"

\* A request of whichever sender is routed by the one user_info of the process.
C13_Route ==
    \A t \in Senders :
        (threads[t].pc = "idle" /\ threads'[t].pc # "idle") =>
            /\ threads'[t].pc = BranchOf(ConversationState)
            /\ user_info' = user_info

\* A message routed to a field sets that field of the one user_info to its
\* trimmed text, whoever set the other fields, and leaves the others alone.
C13_Fill ==
    \A t \in Senders :
        (threads[t].pc \in {"name", "age", "gender"} /\ threads'[t].pc = "idle") =>
            /\ DOMAIN user_info' = DOMAIN user_info \cup {threads[t].pc}
            /\ user_info'[threads[t].pc] = strip(threads[t].user_text)
            /\ \A k \in DOMAIN user_info \ {threads[t].pc} : user_info'[k] = user_info[k]

\* The patient snapshot of a report is the user_info of the process at the
\* time the report is built, whoever sent the symptoms.
C13_Snapshot ==
    \A t \in Senders :
        (threads[t].pc = "symptoms" /\ threads'[t].pc = "load") =>
            /\ Val(threads'[t].report).patient =
                   [k \in {"name", "age", "gender"} |-> user_info[k]]
            /\ audit'.built[Val(threads'[t].report).report_id] = audit.slot_sender

\* C13: the demographic fields are one instance for the whole process; a
\* message of either end user fills the next unset field of that instance,
\* and a report takes its patient snapshot from it, so a Report can combine
\* values that different end users supplied (the state C13_Witness).
C13_SlotsSharedByAllUsers == [][C13_Route /\ C13_Fill /\ C13_Snapshot]_vars

\* A stored Report whose name came from one end user and whose age from the other.
C13_Witness ==
    \E i \in 1..Len(reports_json) :
        LET who == audit.built[reports_json[i].report_id]
        IN  /\ who["name"] = "u1"
            /\ who["age"] = "u2"
            /\ reports_json[i].patient.name # <<>>
            /\ reports_json[i].patient.age # <<>>

\* ====================== the fallback extractor =========================
\* The entries of the common-symptom list that occur in the lowercased text.
Occurring(text) == {symptom \in COMMON_SYMPTOMS : Contains(lower(text), symptom)}

\* The places of the commas and periods of a text, and its two ends.
Cuts(text) ==
    {0, Len(text) + 1} \cup {i \in 1..Len(text) : text[i] \in {",", "."}}

NextCut(text, a) ==
    CHOOSE b \in Cuts(text) : b > a /\ \A c \in Cuts(text) : c > a => b <= c

\* The trimmed fragment that begins after the cut a.
FragmentAfter(text, a) == strip(SubSeq(text, a + 1, NextCut(text, a) - 1))

\* The cuts followed by a fragment that is not empty once trimmed.
FragmentStarts(text) ==
    {a \in Cuts(text) \ {Len(text) + 1} : FragmentAfter(text, a) # <<>>}

\* The first at most 3 non-empty trimmed fragments, in the order of the text.
FirstFragments(text) ==
    LET starts == FragmentStarts(text)
        rank(a) == Cardinality({b \in starts : b <= a})
        n == IF Cardinality(starts) < 3 THEN Cardinality(starts) ELSE 3
    IN  [k \in 1..n |-> FragmentAfter(text, CHOOSE a \in starts : rank(a) = k)]

\* C14: parse_symptoms_from_text returns exactly the common symptoms that
\* occur as substrings of the lowercased text, each once, when one occurs;
\* otherwise the first at most 3 non-empty trimmed fragments of the raw text
\* split on commas and periods; and the empty list only when no common
\* symptom occurs and the text has no non-empty fragment.
C14_FallbackExtractor ==
    (~IsNone(parse_call) /\ Val(parse_call).returned) =>
        LET text == Val(parse_call).user_text
            result == Val(parse_call).result
        IN  /\ Occurring(text) # {} =>
                   /\ Elements(result) = Occurring(text)
                   /\ Len(result) = Cardinality(Occurring(text))
            /\ Occurring(text) = {} => result = FirstFragments(text)
            /\ result = <<>> <=> (Occurring(text) = {} /\ FragmentStarts(text) = {})

\* The call for "I have a fever and a bad cough." returned cough and fever.
C14_Witness ==
    /\ ~IsNone(parse_call)
    /\ Val(parse_call).returned
    /\ Val(parse_call).user_text = FeverAndCough
    /\ Elements(Val(parse_call).result) =
           {<<"f", "e", "v", "e", "r">>, <<"c", "o", "u", "g", "h">>}

\* ====================== the rich extractor =============================
\* The match rule on a label's lemma set: overlap ratio >= 0.55 (11/20) or
\* overlap count >= 2.
GateHolds(sentence_lemmas, label_lemmas) ==
    LET n == Cardinality(sentence_lemmas \cap label_lemmas)
    IN  20 * n >= 11 * Cardinality(label_lemmas) \/ n >= 2

ExtractReturned == ~IsNone(extract_call) /\ Val(extract_call).returned

RaisesOnlyOnEmptyLabel ==
    ExtractReturned =>
        LET c == Val(extract_call)
            all_non_empty == \A i \in 1..Len(c.meta) : c.meta[i] # {}
        IN  /\ all_non_empty =>
                   /\ ~c.raised
                   /\ c.found = {i \in 1..Len(c.meta) :
                                     GateHolds(c.sentence_lemmas, c.meta[i])}
            /\ ~all_non_empty => c.raised

\* A call over the table of symptoms_list that found two labels: one by the
\* overlap count, one by the ratio.
TwoLabelsFound ==
    /\ ExtractReturned
    /\ Val(extract_call).meta = symptom_meta
    /\ ~Val(extract_call).raised
    /\ Val(extract_call).sentence_lemmas = {"anxiety", "nervousness", "depression"}
    /\ Val(extract_call).found = {1, 2}

\* ====================== slot filling with any text =====================
\* The field a prompt asks for.
PromptedState(answer) ==
    IF answer = AskAge THEN "AwaitingAge"
    ELSE IF answer = AskGender THEN "AwaitingGender"
    ELSE IF answer = AskSymptoms THEN "AwaitingSymptoms"
    ELSE "none"

\* C16: for every message text, blank text included, received while a field
\* is unset, the message fills the first unset field and the machine moves to
\* the next state, so the k-th message leaves the machine in the (k+1)-th
\* state and at most three messages are taken for the fields; and the prompt
\* returned names the field that the next message will fill.
C16_EveryMessageAdvances ==
    /\ Len(setup_log) <= 3
    /\ ConversationState = States[Len(setup_log) + 1]
    /\ (~IsNone(response) /\ "answer" \in DOMAIN Val(response)
            /\ PromptedState(Val(response).answer) # "none")
           => ConversationState = PromptedState(Val(response).answer)

\* C17: over any sequence of messages create_user_pdf is invoked exactly
\* once, by the message that moves the machine from AwaitingGender to
\* AwaitingSymptoms, with the completed name, age and gender; a name, age or
\* symptom message never invokes it, the scaffold exists before any output
\* is appended, and no "anonymous" scaffold is ever created.
C17_ScaffoldCreatedOnce ==
    /\ Len(report_files) <= 1
    /\ Len(report_files) = 1 <=> ConversationState = "AwaitingSymptoms"
    /\ \A i \in 1..Len(report_files) :
          /\ report_files[i].patient.name # Anonymous
          /\ report_files[i].patient =
                 [k \in {"name", "age", "gender"} |-> user_info[k]]
          /\ \A k \in {"name", "age", "gender"} : report_files[i].patient[k] # <<>>
    /\ turn.create_user_pdf_called =>
          (ConversationState = "AwaitingSymptoms" /\ ~turn.extract_called)
    /\ turn.append_output_called => _current_report_path = Some(1)

\* ====================== the confidence of the response =================
\* The largest probability of the vector the sequence model returns.
MaxProb(probs) == CHOOSE p \in Elements(probs) : \A q \in Elements(probs) : q <= p

\* C18: in the response of a prediction cycle the confidence is present
\* exactly when the sequence adapter produced a value, and is then the raw
\* arg-max probability of the sequence model, whichever adapter supplied the
\* primary prediction; with an unresolved sequence label and a classical
\* value, the primary prediction is the classical label and the confidence
\* is the sequence model's.
C18_ConfidenceFromSequenceAdapter ==
    (CycleTurn /\ turn.report_created) =>
        LET body == Val(response)
        IN  /\ "confidence" \in DOMAIN body
            /\ IsNone(body.confidence) <=> IsNone(turn.cnn_result)
            /\ ~IsNone(turn.cnn_result) =>
                   /\ Val(cnn_model).kind = "probs"
                   /\ body.confidence = Some(MaxProb(Val(cnn_model).probs))
            /\ (~IsNone(turn.cnn_result) /\ ~SequenceResolved
                    /\ ~IsNone(turn.ml_pred_value)) =>
                   /\ body.prediction = turn.ml_pred_value
                   /\ body.confidence = Some(MaxProb(Val(cnn_model).probs))

\* The classical label "Flu" as primary prediction next to the confidence
\* 0.8336 of the sequence model, whose class index resolved to no name.
C18_Witness ==
    /\ CycleTurn /\ turn.report_created
    /\ ~IsNone(turn.cnn_result) /\ ~SequenceResolved
    /\ Val(response).prediction = Some("Flu")
    /\ Val(response).confidence = Some(8336)
    /\ Val(cnn_model).probs = <<1664, 8336>>

====
